---- MODULE Spec2Model ----
(***************************************************************************)
(* A model of basic-cookies: the codepoint-indexed string, the cursor      *)
(* scanner, the permissive cookie-header parser UserAgentCookie::parse and *)
(* the emitter UserAgentCookie::emit_all.                                  *)
(*                                                                         *)
(* A string (&str) is a sequence of codepoints (integers).  Byte offsets   *)
(* are computed from the UTF-8 width of each codepoint, so that slicing by *)
(* byte range is what the code does and not the identity.                  *)
(***************************************************************************)
EXTENDS Integers, Sequences, FiniteSets, TLC

VARIABLES
    cookies,    \* the argument of emit_all: a sequence of [name, value]
    layout,     \* where whitespace was put around the pairs of the parsed header
    emit_idx,   \* emit_all: number of cookies the for loop has taken
    is_first,   \* emit_all: local is_first
    result,     \* emit_all: local result (the String being built)
    ret,        \* emit_all: the returned Result
    input,      \* the argument of parse
    scanner,    \* parse: local scanner [cursor, indexed_string]
    name,       \* parse: the name bound by the ParseNameResult::Name arm
    results,    \* parse: local results (the Vec being built)
    accesses,   \* every indexed access made so far by the parse
    outcome,    \* what the last parse_name / parse_value call returned
    call,       \* the last call of a scan, of parse_name / parse_value or of a classifier
    driver,     \* parse: iterations of the driver loop and where its &str views point
    pc          \* position in the program

vars == <<cookies, layout, emit_idx, is_first, result, ret, input, scanner,
          name, results, accesses, outcome, call, driver, pc>>

----------------------------------------------------------------------------
(* Codepoints the code names. *)
TAB == 9
SPACE == 32
DQUOTE == 34
SEMICOLON == 59
EQUALS == 61

(* Codepoints used as inputs. *)
LowerA == 97
LParen == 40
Wide == 26481

(* Bounds. *)
MaxLen == 4
MaxCookies == 2
MaxStrLen == 1
MaxWs == 2
MaxValueLen == 2
MaxScanLen == 3
MaxLowCodepoint == 255

StringsUpTo(S, n) == UNION {[1..k -> S] : k \in 0..n}

----------------------------------------------------------------------------
(* char::len_utf8 *)
LenUtf8(c) ==
    IF c < 128 THEN 1 ELSE IF c < 2048 THEN 2 ELSE IF c < 65536 THEN 3 ELSE 4

RECURSIVE StrByteLen(_)
StrByteLen(s) == IF s = <<>> THEN 0 ELSE LenUtf8(Head(s)) + StrByteLen(Tail(s))

(* str::char_indices: one (byte offset, codepoint) entry per codepoint, the
   offset of an entry being the offset after the entry before it. *)
RECURSIVE CharIndicesFrom(_, _)
CharIndicesFrom(s, offset) ==
    IF s = <<>> THEN <<>>
    ELSE <<<<offset, Head(s)>>>> \o CharIndicesFrom(Tail(s), offset + LenUtf8(Head(s)))

CharIndices(s) == CharIndicesFrom(s, 0)

(* &s[b1..b2]: the codepoints whose bytes lie in the byte range; the slice
   panics when the range is reversed, out of bounds or splits a codepoint
   (str::is_char_boundary). *)
StrSlice(s, b1, b2) ==
    LET ci == CharIndices(s)
        end == StrByteLen(s)
        starts == {ci[i][1] : i \in 1..Len(s)} \cup {0, end}
    IN  IF b1 >= 0 /\ b1 <= b2 /\ b2 <= end /\ b1 \in starts /\ b2 \in starts
        THEN [ok |-> TRUE,
              str |-> SubSeq(s, Cardinality({i \in 1..Len(s) : ci[i][1] < b1}) + 1,
                                Cardinality({i \in 1..Len(s) : ci[i][1] < b2}))]
        ELSE [ok |-> FALSE, str |-> <<>>]

----------------------------------------------------------------------------
(* IndexedString *)
(* Faulty variant of from_str: the table is built with enumerate, holding
   codepoint positions where byte offsets belong. *)
IndexedStringFromStrEnumerated(src) ==
    [string |-> src, char_indexes |-> [i \in 1..Len(src) |-> <<i - 1, src[i]>>]]

IndexedStringFromStr(src) == [string |-> src, char_indexes |-> CharIndices(src)]

IndexedStringLen(is) == Len(is.char_indexes)

(* A vector index out of range panics: the panic is the value -1. *)

(* Faulty variant of idx_of_char_in_str: no case for idx == len, so the
   one-past-the-end index is looked up in the table. *)
IdxOfCharInStrNoEnd(is, idx) ==
    IF idx >= 0 /\ idx < Len(is.char_indexes) THEN is.char_indexes[idx + 1][1] ELSE -1

(* Faulty variant of idx_of_char_in_str: the end of the string is taken to
   be one byte after the start of the last codepoint. *)
IdxOfCharInStrOneByteEnd(is, idx) ==
    IF idx = Len(is.char_indexes)
    THEN IF idx = 0
         THEN 0
         ELSE is.char_indexes[idx][1] + 1
    ELSE IF idx >= 0 /\ idx < Len(is.char_indexes)
         THEN is.char_indexes[idx + 1][1]
         ELSE -1

IdxOfCharInStr(is, idx) ==
    IF idx = Len(is.char_indexes)
    THEN IF idx = 0
         THEN 0
         ELSE is.char_indexes[idx][1] + LenUtf8(is.char_indexes[idx][2])
    ELSE IF idx >= 0 /\ idx < Len(is.char_indexes)
         THEN is.char_indexes[idx + 1][1]
         ELSE -1

CharAtIdx(is, idx) ==
    IF idx >= 0 /\ idx < Len(is.char_indexes) THEN is.char_indexes[idx + 1][2] ELSE -1

IndexedSubstring(is, from, to) ==
    StrSlice(is.string, IdxOfCharInStr(is, from), IdxOfCharInStr(is, to))

GetCharIndexRangeFrom(is, from) ==
    IF from >= 0 /\ from <= Len(is.char_indexes)
    THEN [ok |-> TRUE, range |-> SubSeq(is.char_indexes, from + 1, Len(is.char_indexes))]
    ELSE [ok |-> FALSE, range |-> <<>>]

Access(op, from, to) == [op |-> op, from |-> from, to |-> to]

----------------------------------------------------------------------------
(* StringScanner.  A scan returns the scanner it leaves, its result, the
   indexed accesses it made and whether all of them were in range. *)
StringScannerFromStr(src) == [cursor |-> 0, indexed_string |-> IndexedStringFromStr(src)]

(* Faulty variant of is_at_end_of_string: > in place of >=. *)
IsAtEndOfStringPastEnd(sc) == sc.cursor > IndexedStringLen(sc.indexed_string)

IsAtEndOfString(sc) == sc.cursor >= IndexedStringLen(sc.indexed_string)

ScannerSubstring(sc, from, to) == IndexedSubstring(sc.indexed_string, from, to)

Scanned(sc, res, n, acc, ok) == [scanner |-> sc, res |-> res, n |-> n, acc |-> acc, ok |-> ok]

(* Faulty variant of scan_char_once: every repetition of the codepoint at
   the cursor is consumed. *)
ScanCharOnceRepeating(sc, char_to_scan) ==
    LET len == IndexedStringLen(sc.indexed_string)
        stop == CHOOSE j \in sc.cursor..len :
                    /\ \A i \in sc.cursor..(j - 1) : CharAtIdx(sc.indexed_string, i) = char_to_scan
                    /\ j = len \/ CharAtIdx(sc.indexed_string, j) # char_to_scan
    IN  IF sc.cursor < len /\ stop > sc.cursor
        THEN Scanned([sc EXCEPT !.cursor = stop], "CharFound", stop - sc.cursor,
                     {Access("char_at", sc.cursor, sc.cursor + 1)}, TRUE)
        ELSE Scanned(sc, "CharNotFound", 0, {}, TRUE)

ScanCharOnce(sc, char_to_scan) ==
    IF sc.cursor < IndexedStringLen(sc.indexed_string)
    THEN IF CharAtIdx(sc.indexed_string, sc.cursor) = char_to_scan
         THEN Scanned([sc EXCEPT !.cursor = sc.cursor + 1], "CharFound", 1,
                      {Access("char_at", sc.cursor, sc.cursor + 1)}, TRUE)
         ELSE Scanned(sc, "CharNotFound", 0,
                      {Access("char_at", sc.cursor, sc.cursor + 1)}, TRUE)
    ELSE Scanned(sc, "CharNotFound", 0, {}, TRUE)

(* The for loops of the three scans: the number of entries stepped over
   before the break, and whether the loop broke on a stop codepoint. *)
RECURSIVE UntilCharLoop(_, _, _)
UntilCharLoop(range, char_to_find, chars_scanned) ==
    IF range = <<>>
    THEN [chars_scanned |-> chars_scanned, char_found |-> FALSE]
    ELSE IF Head(range)[2] = char_to_find
         THEN [chars_scanned |-> chars_scanned, char_found |-> TRUE]
         ELSE UntilCharLoop(Tail(range), char_to_find, chars_scanned + 1)

(* Faulty variant of the scan_until_char_or_whitespace loop: '=' stops the
   scan too. *)
RECURSIVE UntilCharOrWhitespaceLoopStopAtEquals(_, _, _)
UntilCharOrWhitespaceLoopStopAtEquals(range, char_to_find, chars_scanned) ==
    IF range = <<>>
    THEN [chars_scanned |-> chars_scanned, char_found |-> FALSE]
    ELSE IF Head(range)[2] = char_to_find \/ Head(range)[2] = TAB \/ Head(range)[2] = SPACE
            \/ Head(range)[2] = EQUALS
         THEN [chars_scanned |-> chars_scanned, char_found |-> TRUE]
         ELSE UntilCharOrWhitespaceLoopStopAtEquals(Tail(range), char_to_find,
                                                    chars_scanned + 1)

RECURSIVE UntilCharOrWhitespaceLoop(_, _, _)
UntilCharOrWhitespaceLoop(range, char_to_find, chars_scanned) ==
    IF range = <<>>
    THEN [chars_scanned |-> chars_scanned, char_found |-> FALSE]
    ELSE IF Head(range)[2] = char_to_find \/ Head(range)[2] = TAB \/ Head(range)[2] = SPACE
         THEN [chars_scanned |-> chars_scanned, char_found |-> TRUE]
         ELSE UntilCharOrWhitespaceLoop(Tail(range), char_to_find, chars_scanned + 1)

RECURSIVE WhitespaceLoop(_, _)
WhitespaceLoop(range, chars_scanned) ==
    IF range = <<>>
    THEN chars_scanned
    ELSE IF Head(range)[2] = TAB \/ Head(range)[2] = SPACE
         THEN WhitespaceLoop(Tail(range), chars_scanned + 1)
         ELSE chars_scanned

UntilResult(sc, tail, loop) ==
    Scanned([sc EXCEPT !.cursor = sc.cursor + loop.chars_scanned],
            IF loop.char_found THEN "CharFound" ELSE "EndOfStringReached",
            loop.chars_scanned,
            {Access("range_from", sc.cursor, IndexedStringLen(sc.indexed_string))},
            tail.ok)

(* Faulty variant of scan_until_char: the cursor is left past the found
   codepoint instead of at it. *)
ScanUntilCharPast(sc, char_to_find) ==
    LET tail == GetCharIndexRangeFrom(sc.indexed_string, sc.cursor)
        loop == UntilCharLoop(tail.range, char_to_find, 0)
    IN  UntilResult(sc, tail,
                    [loop EXCEPT !.chars_scanned =
                        IF loop.char_found THEN loop.chars_scanned + 1 ELSE loop.chars_scanned])

(* Faulty variant of scan_until_char: a tab or a space stops the scan as
   the sought codepoint does. *)
ScanUntilCharStopAtWhitespace(sc, char_to_find) ==
    LET tail == GetCharIndexRangeFrom(sc.indexed_string, sc.cursor)
    IN  UntilResult(sc, tail, UntilCharOrWhitespaceLoop(tail.range, char_to_find, 0))

ScanUntilChar(sc, char_to_find) ==
    LET tail == GetCharIndexRangeFrom(sc.indexed_string, sc.cursor)
    IN  UntilResult(sc, tail, UntilCharLoop(tail.range, char_to_find, 0))

(* Faulty variant of scan_until_char_or_whitespace: a tab does not stop the
   scan, only the sought codepoint and a space do. *)
RECURSIVE UntilCharOrSpaceLoop(_, _, _)
UntilCharOrSpaceLoop(range, char_to_find, chars_scanned) ==
    IF range = <<>>
    THEN [chars_scanned |-> chars_scanned, char_found |-> FALSE]
    ELSE IF Head(range)[2] = char_to_find \/ Head(range)[2] = SPACE
         THEN [chars_scanned |-> chars_scanned, char_found |-> TRUE]
         ELSE UntilCharOrSpaceLoop(Tail(range), char_to_find, chars_scanned + 1)

ScanUntilCharOrWhitespaceNoTab(sc, char_to_find) ==
    LET tail == GetCharIndexRangeFrom(sc.indexed_string, sc.cursor)
    IN  UntilResult(sc, tail, UntilCharOrSpaceLoop(tail.range, char_to_find, 0))

ScanUntilCharOrWhitespace(sc, char_to_find) ==
    LET tail == GetCharIndexRangeFrom(sc.indexed_string, sc.cursor)
    IN  UntilResult(sc, tail, UntilCharOrWhitespaceLoop(tail.range, char_to_find, 0))

(* Faulty variant of scan_whitespace_repeating: one tab or space is
   consumed, not the run. *)
ScanWhitespaceRepeatingOnce(sc) ==
    IF /\ sc.cursor < IndexedStringLen(sc.indexed_string)
       /\ CharAtIdx(sc.indexed_string, sc.cursor) \in {TAB, SPACE}
    THEN Scanned([sc EXCEPT !.cursor = sc.cursor + 1], "CharFound", 1,
                 {Access("range_from", sc.cursor, IndexedStringLen(sc.indexed_string))}, TRUE)
    ELSE Scanned(sc, "CharNotFound", 0,
                 {Access("range_from", sc.cursor, IndexedStringLen(sc.indexed_string))}, TRUE)

(* Faulty variant of scan_whitespace_repeating: the codepoint that ends the
   run is counted too. *)
ScanWhitespaceRepeatingOvercount(sc) ==
    LET tail == GetCharIndexRangeFrom(sc.indexed_string, sc.cursor)
        chars_scanned == WhitespaceLoop(tail.range, 0)
    IN  IF chars_scanned > 0
        THEN Scanned([sc EXCEPT !.cursor = sc.cursor + chars_scanned + 1], "CharFound",
                     chars_scanned + 1,
                     {Access("range_from", sc.cursor, IndexedStringLen(sc.indexed_string))},
                     tail.ok)
        ELSE Scanned(sc, "CharNotFound", 0,
                     {Access("range_from", sc.cursor, IndexedStringLen(sc.indexed_string))},
                     tail.ok)

ScanWhitespaceRepeating(sc) ==
    LET tail == GetCharIndexRangeFrom(sc.indexed_string, sc.cursor)
        chars_scanned == WhitespaceLoop(tail.range, 0)
    IN  IF chars_scanned > 0
        THEN Scanned([sc EXCEPT !.cursor = sc.cursor + chars_scanned], "CharFound",
                     chars_scanned,
                     {Access("range_from", sc.cursor, IndexedStringLen(sc.indexed_string))},
                     tail.ok)
        ELSE Scanned(sc, "CharNotFound", 0,
                     {Access("range_from", sc.cursor, IndexedStringLen(sc.indexed_string))},
                     tail.ok)

----------------------------------------------------------------------------
(* UserAgentCookie::parse_name and parse_value.  A call returns what it
   returns in the code (kind and str), the span [from, to) the str was cut
   from, the scanner it leaves, the indexed accesses it made and whether
   all of them were in range. *)
Parsed(kind, sub, from, to, sc, acc, ok) ==
    [kind |-> kind, str |-> sub.str, from |-> from, to |-> to, scanner |-> sc,
     acc |-> acc \cup {Access("substring", from, to)}, ok |-> ok /\ sub.ok]

NotParsed(sc, acc, ok) ==
    [kind |-> "None", str |-> <<>>, from |-> sc.cursor, to |-> sc.cursor, scanner |-> sc,
     acc |-> acc, ok |-> ok]

(* Faulty variant of parse_name: leading whitespace is not skipped. *)
(* Faulty variant of parse_name: a span that runs to the end of input is
   returned as Name. *)
ParseNameEndAsName(sc) ==
    LET s1 == ScanWhitespaceRepeating(sc)
    IN  IF IsAtEndOfString(s1.scanner)
        THEN NotParsed(s1.scanner, s1.acc, s1.ok)
        ELSE LET start_idx == s1.scanner.cursor
                 s2 == ScanUntilChar(s1.scanner, EQUALS)
             IN  Parsed("Name",
                        ScannerSubstring(s2.scanner, start_idx, s2.scanner.cursor),
                        start_idx, s2.scanner.cursor, s2.scanner,
                        s1.acc \cup s2.acc, s1.ok /\ s2.ok)

(* Faulty variant of parse_name: the name runs through the '='. *)
ParseNameThroughEquals(sc) ==
    LET s1 == ScanWhitespaceRepeating(sc)
    IN  IF IsAtEndOfString(s1.scanner)
        THEN NotParsed(s1.scanner, s1.acc, s1.ok)
        ELSE LET start_idx == s1.scanner.cursor
                 s2 == ScanUntilChar(s1.scanner, EQUALS)
                 end_idx == IF s2.res = "CharFound"
                            THEN s2.scanner.cursor + 1 ELSE s2.scanner.cursor
             IN  Parsed(IF s2.res = "CharFound" THEN "Name" ELSE "Value",
                        ScannerSubstring(s2.scanner, start_idx, end_idx),
                        start_idx, end_idx, s2.scanner,
                        s1.acc \cup s2.acc, s1.ok /\ s2.ok)

(* Faulty variant of parse_name: a span without '=' ends at the first ';',
   which is consumed. *)
ParseNameValueStopsAtSemicolon(sc) ==
    LET s1 == ScanWhitespaceRepeating(sc)
    IN  IF IsAtEndOfString(s1.scanner)
        THEN NotParsed(s1.scanner, s1.acc, s1.ok)
        ELSE LET start_idx == s1.scanner.cursor
                 s2 == ScanUntilChar(s1.scanner, EQUALS)
                 s3 == ScanUntilChar(s1.scanner, SEMICOLON)
                 s4 == ScanCharOnce(s3.scanner, SEMICOLON)
             IN  IF s2.res = "CharFound"
                 THEN Parsed("Name",
                             ScannerSubstring(s2.scanner, start_idx, s2.scanner.cursor),
                             start_idx, s2.scanner.cursor, s2.scanner,
                             s1.acc \cup s2.acc, s1.ok /\ s2.ok)
                 ELSE Parsed("Value",
                             ScannerSubstring(s3.scanner, start_idx, s3.scanner.cursor),
                             start_idx, s3.scanner.cursor, s4.scanner,
                             s1.acc \cup s2.acc \cup s3.acc \cup s4.acc,
                             s1.ok /\ s2.ok /\ s3.ok /\ s4.ok)

(* Faulty variant of parse_name: the span starts at the start of the input
   and not at the cursor. *)
ParseNameFromInputStart(sc) ==
    LET s1 == ScanWhitespaceRepeating(sc)
    IN  IF IsAtEndOfString(s1.scanner)
        THEN NotParsed(s1.scanner, s1.acc, s1.ok)
        ELSE LET s2 == ScanUntilChar(s1.scanner, EQUALS)
             IN  Parsed(IF s2.res = "CharFound" THEN "Name" ELSE "Value",
                        ScannerSubstring(s2.scanner, 0, s2.scanner.cursor),
                        0, s2.scanner.cursor, s2.scanner,
                        s1.acc \cup s2.acc, s1.ok /\ s2.ok)

ParseNameNoTrim(sc) ==
    IF IsAtEndOfString(sc)
    THEN NotParsed(sc, {}, TRUE)
    ELSE LET start_idx == sc.cursor
             s2 == ScanUntilChar(sc, EQUALS)
         IN  Parsed(IF s2.res = "CharFound" THEN "Name" ELSE "Value",
                    ScannerSubstring(s2.scanner, start_idx, s2.scanner.cursor),
                    start_idx, s2.scanner.cursor, s2.scanner, s2.acc, s2.ok)

ParseName(sc) ==
    LET s1 == ScanWhitespaceRepeating(sc)
    IN  IF IsAtEndOfString(s1.scanner)
        THEN NotParsed(s1.scanner, s1.acc, s1.ok)
        ELSE LET start_idx == s1.scanner.cursor
                 s2 == ScanUntilChar(s1.scanner, EQUALS)
             IN  Parsed(IF s2.res = "CharFound" THEN "Name" ELSE "Value",
                        ScannerSubstring(s2.scanner, start_idx, s2.scanner.cursor),
                        start_idx, s2.scanner.cursor, s2.scanner,
                        s1.acc \cup s2.acc, s1.ok /\ s2.ok)

(* Faulty variant of parse_value: the trailing ';' is not consumed. *)
(* Faulty variant of parse_value: the span of a quoted value runs through
   the closing quote. *)
ParseValueKeepQuote(sc) ==
    LET s1 == ScanCharOnce(sc, EQUALS)
        s2 == ScanCharOnce(s1.scanner, DQUOTE)
        starts_with_dquote == s2.res = "CharFound"
        start_idx == s2.scanner.cursor
        s3 == IF starts_with_dquote
              THEN ScanUntilChar(s2.scanner, DQUOTE)
              ELSE ScanUntilCharOrWhitespace(s2.scanner, SEMICOLON)
        acc3 == s1.acc \cup s2.acc \cup s3.acc
        ok3 == s1.ok /\ s2.ok /\ s3.ok
    IN  IF s3.res = "CharFound"
        THEN LET s4 == IF starts_with_dquote
                       THEN ScanCharOnce(s3.scanner, DQUOTE)
                       ELSE Scanned(s3.scanner, "CharNotFound", 0, {}, TRUE)
                 end_idx == s4.scanner.cursor
                 s5 == ScanCharOnce(s4.scanner, SEMICOLON)
             IN  Parsed("Some", ScannerSubstring(s5.scanner, start_idx, end_idx),
                        start_idx, end_idx, s5.scanner,
                        acc3 \cup s4.acc \cup s5.acc, ok3 /\ s4.ok /\ s5.ok)
        ELSE IF s3.scanner.cursor > start_idx
             THEN Parsed("Some", ScannerSubstring(s3.scanner, start_idx, s3.scanner.cursor),
                         start_idx, s3.scanner.cursor, s3.scanner, acc3, ok3)
             ELSE NotParsed(s3.scanner, acc3, ok3)

(* Faulty variant of parse_value: an unquoted value stops at ';' only, not
   at a tab or a space. *)
ParseValueStopAtSemicolonOnly(sc) ==
    LET s1 == ScanCharOnce(sc, EQUALS)
        s2 == ScanCharOnce(s1.scanner, DQUOTE)
        starts_with_dquote == s2.res = "CharFound"
        start_idx == s2.scanner.cursor
        s3 == IF starts_with_dquote
              THEN ScanUntilChar(s2.scanner, DQUOTE)
              ELSE ScanUntilChar(s2.scanner, SEMICOLON)
        acc3 == s1.acc \cup s2.acc \cup s3.acc
        ok3 == s1.ok /\ s2.ok /\ s3.ok
    IN  IF s3.res = "CharFound"
        THEN LET end_idx == s3.scanner.cursor
                 s4 == IF starts_with_dquote
                       THEN ScanCharOnce(s3.scanner, DQUOTE)
                       ELSE Scanned(s3.scanner, "CharNotFound", 0, {}, TRUE)
                 s5 == ScanCharOnce(s4.scanner, SEMICOLON)
             IN  Parsed("Some", ScannerSubstring(s5.scanner, start_idx, end_idx),
                        start_idx, end_idx, s5.scanner,
                        acc3 \cup s4.acc \cup s5.acc, ok3 /\ s4.ok /\ s5.ok)
        ELSE IF s3.scanner.cursor > start_idx
             THEN Parsed("Some", ScannerSubstring(s3.scanner, start_idx, s3.scanner.cursor),
                         start_idx, s3.scanner.cursor, s3.scanner, acc3, ok3)
             ELSE NotParsed(s3.scanner, acc3, ok3)

(* Faulty variant of parse_value: a quoted value without its closing quote
   is dropped. *)
ParseValueUnclosedQuoteNone(sc) ==
    LET s1 == ScanCharOnce(sc, EQUALS)
        s2 == ScanCharOnce(s1.scanner, DQUOTE)
        starts_with_dquote == s2.res = "CharFound"
        start_idx == s2.scanner.cursor
        s3 == IF starts_with_dquote
              THEN ScanUntilChar(s2.scanner, DQUOTE)
              ELSE ScanUntilCharOrWhitespace(s2.scanner, SEMICOLON)
        acc3 == s1.acc \cup s2.acc \cup s3.acc
        ok3 == s1.ok /\ s2.ok /\ s3.ok
    IN  IF s3.res = "CharFound"
        THEN LET end_idx == s3.scanner.cursor
                 s4 == IF starts_with_dquote
                       THEN ScanCharOnce(s3.scanner, DQUOTE)
                       ELSE Scanned(s3.scanner, "CharNotFound", 0, {}, TRUE)
                 s5 == ScanCharOnce(s4.scanner, SEMICOLON)
             IN  Parsed("Some", ScannerSubstring(s5.scanner, start_idx, end_idx),
                        start_idx, end_idx, s5.scanner,
                        acc3 \cup s4.acc \cup s5.acc, ok3 /\ s4.ok /\ s5.ok)
        ELSE IF s3.scanner.cursor > start_idx /\ ~starts_with_dquote
             THEN Parsed("Some", ScannerSubstring(s3.scanner, start_idx, s3.scanner.cursor),
                         start_idx, s3.scanner.cursor, s3.scanner, acc3, ok3)
             ELSE NotParsed(s3.scanner, acc3, ok3)

(* Faulty variant of parse_value: an empty value before a stop codepoint is
   returned as None. *)
ParseValueEmptyIsNone(sc) ==
    LET s1 == ScanCharOnce(sc, EQUALS)
        s2 == ScanCharOnce(s1.scanner, DQUOTE)
        starts_with_dquote == s2.res = "CharFound"
        start_idx == s2.scanner.cursor
        s3 == IF starts_with_dquote
              THEN ScanUntilChar(s2.scanner, DQUOTE)
              ELSE ScanUntilCharOrWhitespace(s2.scanner, SEMICOLON)
        acc3 == s1.acc \cup s2.acc \cup s3.acc
        ok3 == s1.ok /\ s2.ok /\ s3.ok
    IN  IF s3.res = "CharFound"
        THEN LET end_idx == s3.scanner.cursor
                 s4 == IF starts_with_dquote
                       THEN ScanCharOnce(s3.scanner, DQUOTE)
                       ELSE Scanned(s3.scanner, "CharNotFound", 0, {}, TRUE)
                 s5 == ScanCharOnce(s4.scanner, SEMICOLON)
             IN  IF end_idx > start_idx
                 THEN Parsed("Some", ScannerSubstring(s5.scanner, start_idx, end_idx),
                             start_idx, end_idx, s5.scanner,
                             acc3 \cup s4.acc \cup s5.acc, ok3 /\ s4.ok /\ s5.ok)
                 ELSE NotParsed(s5.scanner, acc3 \cup s4.acc \cup s5.acc,
                                ok3 /\ s4.ok /\ s5.ok)
        ELSE IF s3.scanner.cursor > start_idx
             THEN Parsed("Some", ScannerSubstring(s3.scanner, start_idx, s3.scanner.cursor),
                         start_idx, s3.scanner.cursor, s3.scanner, acc3, ok3)
             ELSE NotParsed(s3.scanner, acc3, ok3)

ParseValueKeepSeparator(sc) ==
    LET s1 == ScanCharOnce(sc, EQUALS)
        s2 == ScanCharOnce(s1.scanner, DQUOTE)
        starts_with_dquote == s2.res = "CharFound"
        start_idx == s2.scanner.cursor
        s3 == IF starts_with_dquote
              THEN ScanUntilChar(s2.scanner, DQUOTE)
              ELSE ScanUntilCharOrWhitespace(s2.scanner, SEMICOLON)
        acc3 == s1.acc \cup s2.acc \cup s3.acc
        ok3 == s1.ok /\ s2.ok /\ s3.ok
    IN  IF s3.res = "CharFound"
        THEN LET end_idx == s3.scanner.cursor
                 s4 == IF starts_with_dquote
                       THEN ScanCharOnce(s3.scanner, DQUOTE)
                       ELSE Scanned(s3.scanner, "CharNotFound", 0, {}, TRUE)
             IN  Parsed("Some", ScannerSubstring(s4.scanner, start_idx, end_idx),
                        start_idx, end_idx, s4.scanner, acc3 \cup s4.acc, ok3 /\ s4.ok)
        ELSE IF s3.scanner.cursor > start_idx
             THEN Parsed("Some", ScannerSubstring(s3.scanner, start_idx, s3.scanner.cursor),
                         start_idx, s3.scanner.cursor, s3.scanner, acc3, ok3)
             ELSE NotParsed(s3.scanner, acc3, ok3)

(* Faulty variant of parse_value: at end of input an empty span is
   returned as Some instead of None. *)
ParseValueAlwaysSome(sc) ==
    LET s1 == ScanCharOnce(sc, EQUALS)
        s2 == ScanCharOnce(s1.scanner, DQUOTE)
        starts_with_dquote == s2.res = "CharFound"
        start_idx == s2.scanner.cursor
        s3 == IF starts_with_dquote
              THEN ScanUntilChar(s2.scanner, DQUOTE)
              ELSE ScanUntilCharOrWhitespace(s2.scanner, SEMICOLON)
        acc3 == s1.acc \cup s2.acc \cup s3.acc
        ok3 == s1.ok /\ s2.ok /\ s3.ok
    IN  IF s3.res = "CharFound"
        THEN LET end_idx == s3.scanner.cursor
                 s4 == IF starts_with_dquote
                       THEN ScanCharOnce(s3.scanner, DQUOTE)
                       ELSE Scanned(s3.scanner, "CharNotFound", 0, {}, TRUE)
                 s5 == ScanCharOnce(s4.scanner, SEMICOLON)
             IN  Parsed("Some", ScannerSubstring(s5.scanner, start_idx, end_idx),
                        start_idx, end_idx, s5.scanner,
                        acc3 \cup s4.acc \cup s5.acc, ok3 /\ s4.ok /\ s5.ok)
        ELSE Parsed("Some", ScannerSubstring(s3.scanner, start_idx, s3.scanner.cursor),
                    start_idx, s3.scanner.cursor, s3.scanner, acc3, ok3)

ParseValue(sc) ==
    LET s1 == ScanCharOnce(sc, EQUALS)
        s2 == ScanCharOnce(s1.scanner, DQUOTE)
        starts_with_dquote == s2.res = "CharFound"
        start_idx == s2.scanner.cursor
        s3 == IF starts_with_dquote
              THEN ScanUntilChar(s2.scanner, DQUOTE)
              ELSE ScanUntilCharOrWhitespace(s2.scanner, SEMICOLON)
        acc3 == s1.acc \cup s2.acc \cup s3.acc
        ok3 == s1.ok /\ s2.ok /\ s3.ok
    IN  IF s3.res = "CharFound"
        THEN LET end_idx == s3.scanner.cursor
                 s4 == IF starts_with_dquote
                       THEN ScanCharOnce(s3.scanner, DQUOTE)
                       ELSE Scanned(s3.scanner, "CharNotFound", 0, {}, TRUE)
                 s5 == ScanCharOnce(s4.scanner, SEMICOLON)
             IN  Parsed("Some", ScannerSubstring(s5.scanner, start_idx, end_idx),
                        start_idx, end_idx, s5.scanner,
                        acc3 \cup s4.acc \cup s5.acc, ok3 /\ s4.ok /\ s5.ok)
        ELSE IF s3.scanner.cursor > start_idx
             THEN Parsed("Some", ScannerSubstring(s3.scanner, start_idx, s3.scanner.cursor),
                         start_idx, s3.scanner.cursor, s3.scanner, acc3, ok3)
             ELSE NotParsed(s3.scanner, acc3, ok3)

(* UserAgentCookie::new *)
NewCookie(n, v) == [name |-> n, value |-> v]

(* UserAgentCookie::parse as a function of its input: the driver loop run
   to its break.  A panic ends the run with the tag "panic". *)
RECURSIVE ParseLoop(_, _)
ParseLoop(sc, acc) ==
    LET pn == ParseName(sc)
    IN  IF ~pn.ok THEN [tag |-> "panic", results |-> acc]
        ELSE IF pn.kind = "None" THEN [tag |-> "ok", results |-> acc]
        ELSE IF pn.kind = "Value"
             THEN ParseLoop(pn.scanner, Append(acc, NewCookie(<<>>, pn.str)))
        ELSE LET pv == ParseValue(pn.scanner)
             IN  IF ~pv.ok THEN [tag |-> "panic", results |-> acc]
                 ELSE IF pv.kind = "Some"
                      THEN ParseLoop(pv.scanner, Append(acc, NewCookie(pn.str, pv.str)))
                      ELSE [tag |-> "ok", results |-> Append(acc, NewCookie(pn.str, <<>>))]

Parse(src) == ParseLoop(StringScannerFromStr(src), <<>>)

----------------------------------------------------------------------------
(* The character classes and the emitter. *)
(* Faulty variant of is_token_char: the range '\x5e'...'\x7a' is cut to the
   lower-case letters. *)
IsTokenCharLettersOnly(c) ==
    \/ c = 33
    \/ c >= 35 /\ c <= 39
    \/ c = 42
    \/ c = 43
    \/ c = 45
    \/ c = 46
    \/ c >= 48 /\ c <= 57
    \/ c >= 65 /\ c <= 90
    \/ c >= 97 /\ c <= 122
    \/ c = 124
    \/ c = 126

IsTokenChar(c) ==
    \/ c = 33
    \/ c >= 35 /\ c <= 39
    \/ c = 42
    \/ c = 43
    \/ c = 45
    \/ c = 46
    \/ c >= 48 /\ c <= 57
    \/ c >= 65 /\ c <= 90
    \/ c >= 94 /\ c <= 122
    \/ c = 124
    \/ c = 126

(* Faulty variant of is_cookie_octet: the range '\x3e'...'\x40' is cut to
   '\x3e'. *)
IsCookieOctetShortRange(c) ==
    \/ IsTokenChar(c)
    \/ c = 40
    \/ c = 41
    \/ c = 47
    \/ c = 58
    \/ c = 60
    \/ c = 62
    \/ c = 91
    \/ c = 93
    \/ c = 123
    \/ c = 125

IsCookieOctet(c) ==
    \/ c = 33
    \/ c >= 35 /\ c <= 39
    \/ c = 42
    \/ c = 43
    \/ c = 45
    \/ c = 46
    \/ c >= 48 /\ c <= 57
    \/ c >= 65 /\ c <= 90
    \/ c >= 94 /\ c <= 122
    \/ c = 124
    \/ c = 126
    \/ c = 40
    \/ c = 41
    \/ c = 47
    \/ c = 58
    \/ c = 60
    \/ c >= 62 /\ c <= 64
    \/ c = 91
    \/ c = 93
    \/ c = 123
    \/ c = 125

IsStrAllTokens(val) == \A i \in 1..Len(val) : IsTokenChar(val[i])

(* Faulty variant of is_str_all_cookie_octets: values are held to the token
   class. *)
IsStrAllCookieOctetsAsTokens(val) == \A i \in 1..Len(val) : IsTokenChar(val[i])

IsStrAllCookieOctets(val) == \A i \in 1..Len(val) : IsCookieOctet(val[i])

(* EncodingError::new *)
EncodingError(value, expected_class) == [value |-> value, expected_class |-> expected_class]

EmitErr(e) == [tag |-> "Err", error |-> e]

EmitOk(s) == [tag |-> "Ok", str |-> s]

(* The body of the for loop of emit_all, for one cookie: the locals it
   leaves and, when it returns early, the Err it returns. *)
EmitIteration(first, res, early) == [is_first |-> first, result |-> res, early |-> early]

(* Faulty variant of the loop body: the separator is pushed before the
   first cookie too. *)
EmitBodySeparatorAlways(cookie, first, res) ==
    LET joined == res \o <<SEMICOLON, SPACE>>
    IN  IF ~IsStrAllTokens(cookie.name)
        THEN EmitIteration(FALSE, joined, <<EmitErr(EncodingError(cookie.name, "Token"))>>)
        ELSE IF ~IsStrAllCookieOctets(cookie.value)
        THEN EmitIteration(FALSE, joined, <<EmitErr(EncodingError(cookie.value, "Token"))>>)
        ELSE EmitIteration(FALSE, joined \o cookie.name \o <<EQUALS>> \o cookie.value, <<>>)

(* Faulty variant of the loop body: the value is validated before the
   name. *)
EmitBodyValueFirst(cookie, first, res) ==
    LET joined == IF first THEN res ELSE res \o <<SEMICOLON, SPACE>>
    IN  IF ~IsStrAllCookieOctets(cookie.value)
        THEN EmitIteration(FALSE, joined, <<EmitErr(EncodingError(cookie.value, "Token"))>>)
        ELSE IF ~IsStrAllTokens(cookie.name)
        THEN EmitIteration(FALSE, joined, <<EmitErr(EncodingError(cookie.name, "Token"))>>)
        ELSE EmitIteration(FALSE, joined \o cookie.name \o <<EQUALS>> \o cookie.value, <<>>)

EmitBody(cookie, first, res) ==
    LET joined == IF first THEN res ELSE res \o <<SEMICOLON, SPACE>>
    IN  IF ~IsStrAllTokens(cookie.name)
        THEN EmitIteration(FALSE, joined, <<EmitErr(EncodingError(cookie.name, "Token"))>>)
        ELSE IF ~IsStrAllCookieOctets(cookie.value)
        THEN EmitIteration(FALSE, joined, <<EmitErr(EncodingError(cookie.value, "Token"))>>)
        ELSE EmitIteration(FALSE, joined \o cookie.name \o <<EQUALS>> \o cookie.value, <<>>)

----------------------------------------------------------------------------
(* Actions. *)

(* No call made yet. *)
NoCall ==
    [op |-> "none", arg |-> 0, from |-> 0, to |-> 0, before |-> 0, res |-> "none",
     n |-> 0, str |-> <<>>, ok |-> TRUE, token |-> FALSE, octet |-> FALSE]

(* A &str the parse returns: a view [from, to) of the input, in codepoints,
   or the literal "" of UserAgentCookie::new("", val) and new(name, ""). *)
View(from, to) == [view |-> TRUE, from |-> from, to |-> to]

Literal == [view |-> FALSE, from |-> 0, to |-> 0]

(* The driver loop before its first iteration. *)
NoDriver == [iterations |-> 0, name |-> Literal, views |-> <<>>]

(* One pass through the for loop of emit_all. *)
EmitIter ==
    /\ pc = "emit_loop"
    /\ emit_idx < Len(cookies)
    /\ LET b == EmitBody(cookies[emit_idx + 1], is_first, result)
       IN  /\ emit_idx' = emit_idx + 1
           /\ is_first' = b.is_first
           /\ result' = b.result
           /\ IF b.early # <<>>
              THEN ret' = b.early[1] /\ pc' = "emit_done"
              ELSE UNCHANGED <<ret, pc>>
    /\ UNCHANGED <<cookies, layout, input, scanner, name, results, accesses, outcome>>
    /\ UNCHANGED <<call, driver>>

(* The iterator is exhausted: Ok(result). *)
EmitReturn ==
    /\ pc = "emit_loop"
    /\ emit_idx = Len(cookies)
    /\ ret' = EmitOk(result)
    /\ pc' = "emit_done"
    /\ UNCHANGED <<cookies, layout, emit_idx, is_first, result, input, scanner, name,
                   results, accesses, outcome>>
    /\ UNCHANGED <<call, driver>>

(* The caller unwraps the emitted string and hands it to parse. *)
ParseEmitted ==
    /\ pc = "emit_done"
    /\ ret.tag = "Ok"
    /\ input' = ret.str
    /\ pc' = "parse_call"
    /\ UNCHANGED <<cookies, layout, emit_idx, is_first, result, ret, scanner, name,
                   results, accesses, outcome>>
    /\ UNCHANGED <<call, driver>>

(* parse: the locals before the loop. *)
ParseBegin ==
    /\ pc = "parse_call"
    /\ results' = <<>>
    /\ scanner' = StringScannerFromStr(input)
    /\ pc' = "parse_name"
    /\ UNCHANGED <<cookies, layout, emit_idx, is_first, result, ret, input, name,
                   accesses, outcome>>
    /\ driver' = NoDriver
    /\ UNCHANGED call

(* parse: the loop head, parse_name and the Value and None arms. *)
ParseNameStep ==
    /\ pc = "parse_name"
    /\ \E pn \in {ParseName(scanner)} :
           /\ scanner' = pn.scanner
           /\ accesses' = accesses \cup pn.acc
           /\ outcome' = pn.kind
           /\ call' = [NoCall EXCEPT !.op = "parse_name", !.before = scanner.cursor,
                                     !.res = pn.kind, !.str = pn.str, !.from = pn.from,
                                     !.to = pn.to, !.ok = pn.ok]
           /\ driver' = [driver EXCEPT
                          !.iterations = driver.iterations + 1,
                          !.name = IF pn.ok /\ pn.kind = "Name"
                                   THEN View(pn.from, pn.to) ELSE driver.name,
                          !.views = IF pn.ok /\ pn.kind = "Value"
                                    THEN Append(driver.views, [name |-> Literal,
                                                             value |-> View(pn.from, pn.to)])
                                    ELSE driver.views]
           /\ IF ~pn.ok
              THEN pc' = "panic" /\ UNCHANGED <<name, results>>
              ELSE IF pn.kind = "Name"
              THEN name' = pn.str /\ pc' = "parse_value" /\ UNCHANGED results
              ELSE IF pn.kind = "Value"
              THEN /\ results' = Append(results, NewCookie(<<>>, pn.str))
                   /\ pc' = "parse_name"
                   /\ UNCHANGED name
              ELSE pc' = "done" /\ UNCHANGED <<name, results>>
    /\ UNCHANGED <<cookies, layout, emit_idx, is_first, result, ret, input>>

(* parse: the Name arm, parse_value and its Some and None arms. *)
ParseValueStep ==
    /\ pc = "parse_value"
    /\ \E pv \in {ParseValue(scanner)} :
           /\ scanner' = pv.scanner
           /\ accesses' = accesses \cup pv.acc
           /\ outcome' = IF pv.kind = "Some" THEN "Some" ELSE "NoValue"
           /\ call' = [NoCall EXCEPT !.op = "parse_value", !.before = scanner.cursor,
                                     !.res = pv.kind, !.str = pv.str, !.from = pv.from,
                                     !.to = pv.to, !.ok = pv.ok]
           /\ driver' = [driver EXCEPT
                          !.views = IF ~pv.ok THEN driver.views
                                    ELSE Append(driver.views,
                                                [name |-> driver.name,
                                                 value |-> IF pv.kind = "Some"
                                                           THEN View(pv.from, pv.to)
                                                           ELSE Literal])]
           /\ IF ~pv.ok
              THEN pc' = "panic" /\ UNCHANGED results
              ELSE IF pv.kind = "Some"
              THEN results' = Append(results, NewCookie(name, pv.str)) /\ pc' = "parse_name"
              ELSE results' = Append(results, NewCookie(name, <<>>)) /\ pc' = "done"
    /\ UNCHANGED <<cookies, layout, emit_idx, is_first, result, ret, input, name>>

----------------------------------------------------------------------------
(* Inputs. *)
NoLayout == [kind |-> "none", sep |-> <<>>, at |-> 0, side |-> "none", w1 |-> <<>>, w2 |-> <<>>]

ParseAlphabet == {TAB, SPACE, DQUOTE, SEMICOLON, EQUALS, LowerA, LParen, Wide}

EmitNames == StringsUpTo({LowerA, LParen}, MaxStrLen)

EmitValues == StringsUpTo({LParen, SEMICOLON}, MaxStrLen)

WsRuns == StringsUpTo({TAB, SPACE}, MaxWs)

PairNames == {<<>>, <<LowerA>>}

PairValues == {<<>>, <<LParen>>}

CookieSeqs(names, values) ==
    UNION {[1..n -> {NewCookie(nm, v) : nm \in names, v \in values}] : n \in 0..MaxCookies}

Layouts(n) ==
    {[kind |-> "ends", sep |-> <<SEMICOLON, SPACE>>, at |-> 0, side |-> "none",
      w1 |-> w1, w2 |-> w2] : w1 \in WsRuns, w2 \in WsRuns}
    \cup
    {[kind |-> "pair", sep |-> x[1], at |-> x[2], side |-> x[3], w1 |-> x[4], w2 |-> <<>>] :
        x \in {<<SEMICOLON>>, <<SEMICOLON, SPACE>>} \X (1..n) \X {"before", "after"}
              \X (WsRuns \ {<<>>})}

RECURSIVE Join(_, _)
Join(segs, sep) ==
    IF segs = <<>> THEN <<>>
    ELSE IF Len(segs) = 1 THEN segs[1]
    ELSE segs[1] \o sep \o Join(Tail(segs), sep)

Pair(c) == c.name \o <<EQUALS>> \o c.value

(* The header of the cookies without any added whitespace. *)
Header(cs, sep) == Join([k \in 1..Len(cs) |-> Pair(cs[k])], sep)

(* The header with the layout's whitespace put in. *)
Decorated(cs, lay) ==
    LET before(k) == IF lay.kind = "pair" /\ lay.at = k /\ lay.side = "before"
                     THEN lay.w1 ELSE <<>>
        after(k) == IF lay.kind = "pair" /\ lay.at = k /\ lay.side = "after"
                    THEN lay.w1 ELSE <<>>
        body == Join([k \in 1..Len(cs) |-> before(k) \o Pair(cs[k]) \o after(k)], lay.sep)
    IN  IF lay.kind = "ends" THEN lay.w1 \o body \o lay.w2 ELSE body

InitLocals ==
    /\ emit_idx = 0
    /\ is_first = TRUE
    /\ result = <<>>
    /\ ret = [tag |-> "Pending"]
    /\ scanner = StringScannerFromStr(<<>>)
    /\ name = <<>>
    /\ results = <<>>
    /\ accesses = {}
    /\ outcome = "none"
    /\ call = NoCall
    /\ driver = NoDriver

(* parse called on any string over the alphabet. *)
InitParse ==
    /\ cookies = <<>>
    /\ layout = NoLayout
    /\ input \in StringsUpTo(ParseAlphabet, MaxLen)
    /\ pc = "parse_call"
    /\ InitLocals

(* emit_all called on any cookies, its output parsed when it is Ok. *)
InitEmit ==
    /\ cookies \in CookieSeqs(EmitNames, EmitValues)
    /\ layout = NoLayout
    /\ input = <<>>
    /\ pc = "emit_loop"
    /\ InitLocals

(* parse called on a header of name=value pairs with whitespace put around
   the header or around one of its pairs. *)
InitLayout ==
    /\ cookies \in CookieSeqs(PairNames, PairValues)
    /\ layout \in Layouts(Len(cookies))
    /\ input = Decorated(cookies, layout)
    /\ pc = "parse_call"
    /\ InitLocals

PairAlphabet == {SPACE, DQUOTE, SEMICOLON, EQUALS, LowerA, Wide}

(* The header name + "=" + value, the value between double quotes when the
   layout is "quoted". *)
SinglePair(c, kind) ==
    IF kind = "quoted"
    THEN c.name \o <<EQUALS, DQUOTE>> \o c.value \o <<DQUOTE>>
    ELSE c.name \o <<EQUALS>> \o c.value

(* parse called on one name=value or name="value" pair, of any name and
   value over the alphabet. *)
InitPair ==
    /\ \E nm \in StringsUpTo(PairAlphabet, MaxStrLen),
          v \in StringsUpTo(PairAlphabet, MaxValueLen) :
          cookies = <<NewCookie(nm, v)>>
    /\ \E kind \in {"plain", "quoted"} : layout = [NoLayout EXCEPT !.kind = kind]
    /\ input = SinglePair(cookies[1], layout.kind)
    /\ pc = "parse_call"
    /\ InitLocals

NextParse == ParseBegin \/ ParseNameStep \/ ParseValueStep

NextEmit == EmitIter \/ EmitReturn \/ ParseEmitted \/ ParseBegin \/ ParseNameStep \/ ParseValueStep

Spec == InitParse /\ [][NextParse]_vars

SpecEmit == InitEmit /\ [][NextEmit]_vars

SpecLayout == InitLayout /\ [][NextParse]_vars

SpecPair == InitPair /\ [][NextParse]_vars

(* Before parse is called. *)
InitIdle ==
    /\ cookies = <<>>
    /\ layout = NoLayout
    /\ input = <<>>
    /\ pc = "idle"
    /\ InitLocals

(* The caller calls parse on any string over the alphabet. *)
ParseCall ==
    /\ pc = "idle"
    /\ input' \in StringsUpTo(ParseAlphabet, MaxLen)
    /\ pc' = "parse_call"
    /\ UNCHANGED <<cookies, layout, emit_idx, is_first, result, ret, scanner, name,
                   results, accesses, outcome, call, driver>>

NextCalled == ParseCall \/ ParseBegin \/ ParseNameStep \/ ParseValueStep

(* parse runs on one thread and nothing suspends it: the step it is at is
   taken.  For the two steps of the loop, weak fairness is written out with
   the step's guard in place of ENABLED: each assigns every variable from
   operators that are defined on every scanner, so it is enabled exactly
   when pc is at it. *)
SpecTerminating ==
    /\ InitIdle
    /\ [][NextCalled]_vars
    /\ WF_vars(ParseBegin)
    /\ ([]<>(pc # "parse_name") \/ []<><<ParseNameStep>>_vars)
    /\ ([]<>(pc # "parse_value") \/ []<><<ParseValueStep>>_vars)

----------------------------------------------------------------------------
(* Direct calls on a scanner, its indexed string and the classifiers. *)

(* Codepoints of 1, 2, 3 and 4 UTF-8 bytes (233 and 128512 are the 2- and
   4-byte ones). *)
ScanAlphabet == {TAB, SPACE, LowerA, 233, Wide, 128512}

ScanOps == {"scan_char_once", "scan_until_char", "scan_until_char_or_whitespace",
            "scan_whitespace_repeating"}

(* The state a scan leaves: the scanner and the record of the call. *)
AfterScan(op, arg, s) ==
    /\ scanner' = s.scanner
    /\ call' = [NoCall EXCEPT !.op = op, !.arg = arg, !.before = scanner.cursor,
                              !.res = s.res, !.n = s.n, !.ok = s.ok]
    /\ pc' = IF s.ok THEN "scan" ELSE "panic"
    /\ UNCHANGED <<cookies, layout, emit_idx, is_first, result, ret, input, name,
                   results, accesses, outcome>>
    /\ UNCHANGED driver

CallScanCharOnce ==
    /\ pc = "scan"
    /\ \E c \in ScanAlphabet : AfterScan("scan_char_once", c, ScanCharOnce(scanner, c))

CallScanUntilChar ==
    /\ pc = "scan"
    /\ \E c \in ScanAlphabet : AfterScan("scan_until_char", c, ScanUntilChar(scanner, c))

CallScanUntilCharOrWhitespace ==
    /\ pc = "scan"
    /\ \E c \in ScanAlphabet :
          AfterScan("scan_until_char_or_whitespace", c, ScanUntilCharOrWhitespace(scanner, c))

CallScanWhitespaceRepeating ==
    /\ pc = "scan"
    /\ AfterScan("scan_whitespace_repeating", 0, ScanWhitespaceRepeating(scanner))

(* substring(from, to) with any pair of indexes up to one past the length;
   a slice out of range panics. *)
CallSubstring ==
    /\ pc = "indexed"
    /\ \E from \in 0..(Len(input) + 1), to \in 0..(Len(input) + 1) :
          LET sub == ScannerSubstring(scanner, from, to)
          IN  /\ call' = [NoCall EXCEPT !.op = "substring", !.from = from, !.to = to,
                                        !.before = scanner.cursor, !.str = sub.str,
                                        !.ok = sub.ok]
              /\ pc' = IF sub.ok THEN "indexed" ELSE "panic"
    /\ UNCHANGED <<cookies, layout, emit_idx, is_first, result, ret, input, scanner, name,
                   results, accesses, outcome>>
    /\ UNCHANGED driver

(* char_at_idx(idx) with any index up to the length; an index out of range
   panics. *)
CallCharAtIdx ==
    /\ pc = "indexed"
    /\ \E idx \in 0..Len(input) :
          LET c == CharAtIdx(scanner.indexed_string, idx)
          IN  /\ call' = [NoCall EXCEPT !.op = "char_at_idx", !.from = idx,
                                        !.before = scanner.cursor, !.arg = c,
                                        !.ok = (c # -1)]
              /\ pc' = IF c # -1 THEN "indexed" ELSE "panic"
    /\ UNCHANGED <<cookies, layout, emit_idx, is_first, result, ret, input, scanner, name,
                   results, accesses, outcome>>
    /\ UNCHANGED driver

(* IndexedString::len() *)
CallLen ==
    /\ pc = "indexed"
    /\ call' = [NoCall EXCEPT !.op = "len", !.before = scanner.cursor,
                              !.n = IndexedStringLen(scanner.indexed_string)]
    /\ UNCHANGED <<cookies, layout, emit_idx, is_first, result, ret, input, scanner, name,
                   results, accesses, outcome, pc>>
    /\ UNCHANGED driver

(* The codepoints classified: the low ones and some of every UTF-8 width. *)
Codepoints == (0..MaxLowCodepoint) \cup {2047, 2048, Wide, 65535, 65536, 128512, 1114111}

CallIsTokenChar ==
    /\ pc = "classify"
    /\ \E c \in Codepoints :
          call' = [NoCall EXCEPT !.op = "is_token_char", !.arg = c, !.token = IsTokenChar(c)]
    /\ UNCHANGED <<cookies, layout, emit_idx, is_first, result, ret, input, scanner, name,
                   results, accesses, outcome, pc>>
    /\ UNCHANGED driver

CallIsCookieOctet ==
    /\ pc = "classify"
    /\ \E c \in Codepoints :
          call' = [NoCall EXCEPT !.op = "is_cookie_octet", !.arg = c,
                                 !.octet = IsCookieOctet(c)]
    /\ UNCHANGED <<cookies, layout, emit_idx, is_first, result, ret, input, scanner, name,
                   results, accesses, outcome, pc>>
    /\ UNCHANGED driver

CallInputs ==
    /\ cookies = <<>>
    /\ layout = NoLayout
    /\ input \in StringsUpTo(ScanAlphabet, MaxScanLen)
    /\ emit_idx = 0
    /\ is_first = TRUE
    /\ result = <<>>
    /\ ret = [tag |-> "Pending"]
    /\ scanner = StringScannerFromStr(input)
    /\ name = <<>>
    /\ results = <<>>
    /\ accesses = {}
    /\ outcome = "none"
    /\ call = NoCall
    /\ driver = NoDriver

(* A scanner built on any string over the alphabet, before its first scan. *)
InitScan == CallInputs /\ pc = "scan"

(* An indexed string built on any string over the alphabet. *)
InitIndexed == CallInputs /\ pc = "indexed"

InitClassify ==
    /\ cookies = <<>>
    /\ layout = NoLayout
    /\ input = <<>>
    /\ pc = "classify"
    /\ InitLocals

NextScan ==
    \/ CallScanCharOnce
    \/ CallScanUntilChar
    \/ CallScanUntilCharOrWhitespace
    \/ CallScanWhitespaceRepeating

NextIndexed == CallSubstring \/ CallCharAtIdx \/ CallLen

NextClassify == CallIsTokenChar \/ CallIsCookieOctet

SpecScan == InitScan /\ [][NextScan]_vars

SpecIndexed == InitIndexed /\ [][NextIndexed]_vars

SpecClassify == InitClassify /\ [][NextClassify]_vars


----------------------------------------------------------------------------
(* Properties. *)

IsWsRun(s) == \A i \in 1..Len(s) : s[i] = TAB \/ s[i] = SPACE

NameIsValid(c) == \A i \in 1..Len(c.name) : IsTokenChar(c.name[i])

ValueIsValid(c) == \A i \in 1..Len(c.value) : IsCookieOctet(c.value[i])

AllValid == \A k \in 1..Len(cookies) : NameIsValid(cookies[k]) /\ ValueIsValid(cookies[k])

(* The first cookie, in input order, with an invalid name or value. *)
FirstInvalid ==
    CHOOSE k \in 1..Len(cookies) :
        /\ ~(NameIsValid(cookies[k]) /\ ValueIsValid(cookies[k]))
        /\ \A j \in 1..(k - 1) : NameIsValid(cookies[j]) /\ ValueIsValid(cookies[j])

(* C1: round trip.  When every name is made of token characters and every
   value of cookie-octet characters, emit_all returns Ok, the parse of the
   emitted string does not panic, and it ends with exactly the input
   cookies: same length, same names and values in the same order. *)
C1_RoundTrip ==
    AllValid =>
        /\ pc # "panic"
        /\ (pc = "emit_done" => ret.tag = "Ok")
        /\ (pc = "done" => results = cookies)

C1_Witness ==
    /\ pc = "done"
    /\ AllValid
    /\ Len(cookies) >= 2
    /\ cookies[1].value = <<>>
    /\ cookies[2].name # <<>>
    /\ results = cookies

(* C2: parse has no reject path.  On every input the parse never panics,
   and every indexed access it makes (substring, char_at, the tail of the
   table from the cursor) satisfies 0 <= from <= to <= len. *)
C2_NoRejectNoOutOfBounds ==
    /\ pc # "panic"
    /\ \A a \in accesses : 0 <= a.from /\ a.from <= a.to /\ a.to <= Len(input)

C2_Witness ==
    /\ pc = "done"
    /\ Cardinality({i \in 1..Len(input) : input[i] = DQUOTE}) = 1
    /\ \E i \in 1..Len(input) : input[i] = Wide
    /\ \E a \in accesses : a.op = "substring" /\ a.from < a.to /\ a.to = Len(input)
    /\ \E a \in accesses : a.op = "char_at"
    /\ results # <<>>
    /\ \E i \in 1..Len(results[Len(results)].value) : results[Len(results)].value[i] = Wide

(* C3: whitespace trimming around any pair.  A run of tab/space put
   immediately before or immediately after any one pair of the header
   leaves the parsed names and values as they are without it. *)
C3_TrimAroundAnyPair ==
    (pc = "done" /\ layout.kind = "pair") =>
        results = Parse(Header(cookies, layout.sep)).results

(* C4: whitespace around the whole header.  For a "; "-joined header H of
   name=value pairs, parse(w1 + H + w2) ends with the pairs of parse(H),
   for all tab/space runs w1 and w2. *)
C4_TrimAroundHeader ==
    (pc = "done" /\ layout.kind = "ends") =>
        /\ Parse(Header(cookies, <<SEMICOLON, SPACE>>)).tag = "ok"
        /\ results = Parse(Header(cookies, <<SEMICOLON, SPACE>>)).results

C4_Witness ==
    /\ pc = "done"
    /\ layout.kind = "ends"
    /\ Len(layout.w1) >= 2
    /\ Len(layout.w2) >= 2
    /\ Len(cookies) >= 2
    /\ Len(results) = Len(cookies)
    /\ input # Header(cookies, <<SEMICOLON, SPACE>>)

(* C5: emit_all returns Err exactly when some name holds a codepoint that
   is not a token character or some value holds a codepoint that is not a
   cookie-octet character, and Ok otherwise (empty strings always pass). *)
C5_ErrIffInvalid ==
    pc = "emit_done" => (ret.tag = "Err" <=> ~AllValid) /\ (ret.tag = "Ok" <=> AllValid)

C5_Witness ==
    /\ pc = "emit_done"
    /\ ret.tag = "Err"
    /\ \A k \in 1..Len(cookies) : NameIsValid(cookies[k])
    /\ \E k \in 1..Len(cookies) : cookies[k].name = <<>>

(* C6: the error of emit_all carries the offending string and the class it
   failed: 'token' for a cookie name, 'cookie-octet' for a cookie value. *)
C6_ErrorClassMatchesRole ==
    (pc = "emit_done" /\ ret.tag = "Err") =>
        IF ~NameIsValid(cookies[FirstInvalid])
        THEN ret.error = EncodingError(cookies[FirstInvalid].name, "Token")
        ELSE ret.error = EncodingError(cookies[FirstInvalid].value, "CookieOctet")

(* C7: on success the emitted string is name1=value1; name2=value2; ... in
   input order, "; " only between consecutive pairs, and empty for no
   cookies. *)
C7_EmitFormat ==
    (pc = "emit_done" /\ ret.tag = "Ok") => ret.str = Header(cookies, <<SEMICOLON, SPACE>>)

C7_Witness ==
    /\ pc = "emit_done"
    /\ ret.tag = "Ok"
    /\ Len(cookies) >= 2
    /\ ret.str = Header(cookies, <<SEMICOLON, SPACE>>)

(* C8: emit_all validates name1, value1, name2, value2, ... and stops at
   the first string that fails: the error carries that string, the loop
   has taken no cookie after the failing one, and the Err holds no output
   string. *)
C8_FirstFailureStops ==
    (pc = "emit_done" /\ ret.tag = "Err") =>
        /\ emit_idx = FirstInvalid
        /\ ret.error.value = IF ~NameIsValid(cookies[FirstInvalid])
                             THEN cookies[FirstInvalid].name
                             ELSE cookies[FirstInvalid].value
        /\ DOMAIN ret = {"tag", "error"}

C8_Witness ==
    /\ pc = "emit_done"
    /\ ret.tag = "Err"
    /\ Len(cookies) >= 2
    /\ NameIsValid(cookies[1])
    /\ ~ValueIsValid(cookies[1])
    /\ ~NameIsValid(cookies[2])
    /\ ret.error.value = cookies[1].value
    /\ emit_idx = 1

(* C9: empty-name segment.  For a run w of tab/space and a non-empty string
   v of cookie-octet characters, parse(w + "=" + v) ends with exactly one
   pair, of empty name and value v. *)
C9_EmptyName ==
    \A k \in 0..Len(input) :
        ( /\ pc = "done"
          /\ k + 1 < Len(input)
          /\ IsWsRun(SubSeq(input, 1, k))
          /\ input[k + 1] = EQUALS
          /\ \A i \in (k + 2)..Len(input) : IsCookieOctet(input[i]) )
        => results = <<NewCookie(<<>>, SubSeq(input, k + 2, Len(input)))>>

C9_Witness ==
    /\ pc = "done"
    /\ Len(input) >= 4
    /\ IsWsRun(SubSeq(input, 1, 2))
    /\ input[3] = EQUALS
    /\ \A i \in 4..Len(input) : IsCookieOctet(input[i])
    /\ results = <<NewCookie(<<>>, SubSeq(input, 4, Len(input)))>>

(* C10: empty-value segment.  For a string n of token characters and a run
   w of tab/space, parse(n + "=" + w) ends with exactly one pair (n, "");
   when w is empty the loop is left through parse_value returning None. *)
C10_EmptyValue ==
    \A k \in 0..Len(input) :
        ( /\ pc = "done"
          /\ k < Len(input)
          /\ \A i \in 1..k : IsTokenChar(input[i])
          /\ input[k + 1] = EQUALS
          /\ IsWsRun(SubSeq(input, k + 2, Len(input))) )
        => /\ results = <<NewCookie(SubSeq(input, 1, k), <<>>)>>
           /\ (k + 1 = Len(input) => outcome = "NoValue")

C10_Witness ==
    /\ pc = "done"
    /\ Len(input) >= 2
    /\ \A i \in 1..(Len(input) - 1) : IsTokenChar(input[i])
    /\ input[Len(input)] = EQUALS
    /\ outcome = "NoValue"
    /\ results = <<NewCookie(SubSeq(input, 1, Len(input) - 1), <<>>)>>

(* C11: no-equals segment.  An input with no '=' and at least one codepoint
   other than tab/space parses to exactly one pair, of empty name and of
   value the input from its first non-whitespace codepoint to its end. *)
C11_NoEquals ==
    ( /\ pc = "done"
      /\ \A i \in 1..Len(input) : input[i] # EQUALS
      /\ \E i \in 1..Len(input) : input[i] # TAB /\ input[i] # SPACE )
    => LET first == CHOOSE i \in 1..Len(input) :
                        /\ input[i] # TAB /\ input[i] # SPACE
                        /\ IsWsRun(SubSeq(input, 1, i - 1))
       IN  results = <<NewCookie(<<>>, SubSeq(input, first, Len(input)))>>

C11_Witness ==
    /\ pc = "done"
    /\ Len(input) >= 4
    /\ \A i \in 1..Len(input) : input[i] # EQUALS
    /\ input[1] = SPACE
    /\ input[2] = Wide
    /\ input[3] \in {TAB, SPACE, SEMICOLON}
    /\ results = <<NewCookie(<<>>, SubSeq(input, 2, Len(input)))>>

(* The name and value the single-pair header was built from. *)
PairName == cookies[1].name

PairValue == cookies[1].value

NoEqualsIn(s) == \A i \in 1..Len(s) : s[i] # EQUALS

StartsWithWs(s) == s # <<>> /\ (s[1] = TAB \/ s[1] = SPACE)

UnquotedValue(v) ==
    /\ \A i \in 1..Len(v) : v[i] # SEMICOLON /\ v[i] # TAB /\ v[i] # SPACE
    /\ v = <<>> \/ v[1] # DQUOTE

(* C12 as stated: for every name n without '=' and every unquoted value v
   (no ';', tab or space, not starting with '"'; '=' allowed),
   parse(n + "=" + v) ends with exactly the pair (n, v). *)
C12_EmbeddedEqualsAnyName ==
    ( /\ pc = "done"
      /\ layout.kind = "plain"
      /\ NoEqualsIn(PairName)
      /\ UnquotedValue(PairValue) )
    => results = <<NewCookie(PairName, PairValue)>>

(* C12, amended: the same for every name n without '=' that does not start
   with tab or space (leading whitespace is skipped by parse_name and is
   not part of the name). *)
C12_EmbeddedEquals ==
    ( /\ pc = "done"
      /\ layout.kind = "plain"
      /\ NoEqualsIn(PairName)
      /\ ~StartsWithWs(PairName)
      /\ UnquotedValue(PairValue) )
    => results = <<NewCookie(PairName, PairValue)>>

C12_Witness ==
    /\ pc = "done"
    /\ layout.kind = "plain"
    /\ PairName = <<LowerA>>
    /\ Len(PairValue) >= 2
    /\ PairValue[2] = EQUALS
    /\ results = <<NewCookie(PairName, PairValue)>>

(* C13 as stated: for every name n and every q without '"',
   parse(n + "=\"" + q + "\"") ends with exactly the pair (n, q). *)
C13_QuotedVerbatimAnyName ==
    ( /\ pc = "done"
      /\ layout.kind = "quoted"
      /\ \A i \in 1..Len(PairValue) : PairValue[i] # DQUOTE )
    => results = <<NewCookie(PairName, PairValue)>>

(* C13, amended: the same for every name n that holds no '=' and does not
   start with tab or space; the quotes are excluded and the inner text,
   whitespace, ';' and '=' included, is kept unchanged. *)
C13_QuotedVerbatim ==
    ( /\ pc = "done"
      /\ layout.kind = "quoted"
      /\ NoEqualsIn(PairName)
      /\ ~StartsWithWs(PairName)
      /\ \A i \in 1..Len(PairValue) : PairValue[i] # DQUOTE )
    => results = <<NewCookie(PairName, PairValue)>>

C13_Witness ==
    /\ pc = "done"
    /\ layout.kind = "quoted"
    /\ PairName = <<LowerA>>
    /\ Len(PairValue) >= 2
    /\ PairValue[1] = SPACE
    /\ PairValue[2] \in {SEMICOLON, EQUALS}
    /\ results = <<NewCookie(PairName, PairValue)>>

(* C14: from_str builds one table entry per codepoint of the source, in
   order, entry i holding the i-th codepoint and the sum of the UTF-8 widths
   of the codepoints before it, so the offsets increase strictly; len() is
   the number of codepoints and char_at_idx(i) the i-th codepoint. *)
C14_TablePerCodepoint ==
    LET table == scanner.indexed_string.char_indexes
    IN  /\ Len(table) = Len(input)
        /\ \A i \in 1..Len(table) :
              /\ table[i][2] = input[i]
              /\ table[i][1] = StrByteLen(SubSeq(input, 1, i - 1))
        /\ \A i \in 1..(Len(table) - 1) : table[i][1] < table[i + 1][1]
        /\ (call.op = "len" => call.n = Len(input))
        /\ (call.op = "char_at_idx" /\ call.from < Len(input)
              => call.ok /\ call.arg = input[call.from + 1])

C14_Witness ==
    /\ call.op = "char_at_idx"
    /\ Len(input) >= 3
    /\ LenUtf8(input[1]) = 3
    /\ LenUtf8(input[2]) = 4
    /\ call.from = 2
    /\ call.arg = input[3]
    /\ scanner.indexed_string.char_indexes[3][1] = 7

(* C15: substring(from, to) with 0 <= from <= to <= len() returns exactly
   the codepoints from..to-1 of the string, for codepoints of 1 to 4 bytes;
   to == len() reaches the end, substring(0, len()) is the whole string. *)
C15_SubstringByCodepoint ==
    (call.op = "substring" /\ call.from <= call.to /\ call.to <= Len(input))
    => /\ call.ok
       /\ call.str = SubSeq(input, call.from + 1, call.to)
       /\ (call.from = 0 /\ call.to = Len(input) => call.str = input)

C15_Witness ==
    /\ call.op = "substring"
    /\ Len(input) >= 3
    /\ LenUtf8(input[1]) = 2
    /\ LenUtf8(input[2]) = 1
    /\ LenUtf8(input[Len(input)]) = 4
    /\ call.from = 1
    /\ call.to = Len(input)
    /\ call.str = Tail(input)

(* The codepoints C16 lists: 0x21, 0x23-0x27, 0x2A, 0x2B, 0x2D, 0x2E,
   0x30-0x39, 0x41-0x5A, 0x5E-0x7A, 0x7C, 0x7E. *)
TokenCodepoints ==
    {33, 42, 43, 45, 46, 124, 126} \cup (35..39) \cup (48..57) \cup (65..90) \cup (94..122)

(* Control characters, space, tab, '"', ',', ';', '=', '\', 0x7F and every
   non-ASCII codepoint. *)
NeverAllowed(c) == c <= 32 \/ c \in {34, 44, 59, 61, 92, 127} \/ c >= 128

(* C16: is_token_char(c) is true exactly for the listed codepoints and
   false for every other one. *)
C16_TokenChars ==
    call.op = "is_token_char"
    => /\ call.token <=> call.arg \in TokenCodepoints
       /\ NeverAllowed(call.arg) => ~call.token

C16_Witness ==
    /\ call.op = "is_token_char"
    /\ call.arg = 94
    /\ call.token

(* C17: is_cookie_octet(c) is true exactly when is_token_char(c) is true or
   c is one of ( ) / : < > ? @ [ ] { }, and false for control characters,
   space, tab, '"', ',', ';', '=', '\' and every non-ASCII codepoint. *)
C17_CookieOctetSuperset ==
    call.op = "is_cookie_octet"
    => /\ call.octet <=> ( \/ IsTokenChar(call.arg)
                           \/ call.arg \in {40, 41, 47, 58, 60, 62, 63, 64, 91, 93, 123, 125} )
       /\ NeverAllowed(call.arg) => ~call.octet

C17_Witness ==
    /\ call.op = "is_cookie_octet"
    /\ call.arg = 64
    /\ call.octet
    /\ ~IsTokenChar(call.arg)

(* C18: scanner cursor invariant.  From cursor 0 and after any sequence of
   the four scans with any arguments, every scan leaves
   old_cursor <= new_cursor <= len. *)
C18_CursorInvariant ==
    /\ 0 <= scanner.cursor
    /\ scanner.cursor <= Len(input)
    /\ call.op \in ScanOps => call.before <= scanner.cursor
    /\ pc # "panic"

C18_Witness ==
    /\ call.op = "scan_whitespace_repeating"
    /\ call.before >= 1
    /\ scanner.cursor = Len(input)
    /\ scanner.cursor >= call.before + 2

(* C19: scan_char_once(c) advances the cursor by exactly 1 and returns
   CharFound(1) when the cursor is before the end and the codepoint at it is
   c, also when c repeats; otherwise it returns CharNotFound and leaves the
   cursor. *)
C19_ScanCharOnce ==
    call.op = "scan_char_once"
    => IF call.before < Len(input) /\ input[call.before + 1] = call.arg
       THEN scanner.cursor = call.before + 1 /\ call.res = "CharFound" /\ call.n = 1
       ELSE scanner.cursor = call.before /\ call.res = "CharNotFound"

C19_Witness ==
    /\ call.op = "scan_char_once"
    /\ call.res = "CharFound"
    /\ call.before + 2 <= Len(input)
    /\ input[call.before + 1] = call.arg
    /\ input[call.before + 2] = call.arg
    /\ scanner.cursor = call.before + 1

(* C20: scan_until_char(c) leaves the cursor at the first c at or after the
   old cursor and returns CharFound, or leaves it at len and returns
   EndOfStringReached when there is none; no codepoint it stepped over
   equals c. *)
C20_ScanUntilChar ==
    call.op = "scan_until_char"
    => LET hits == {i \in call.before..(Len(input) - 1) : input[i + 1] = call.arg}
       IN  /\ IF hits # {}
              THEN /\ scanner.cursor \in hits
                   /\ \A i \in hits : scanner.cursor <= i
                   /\ call.res = "CharFound"
              ELSE scanner.cursor = Len(input) /\ call.res = "EndOfStringReached"
           /\ \A i \in call.before..(scanner.cursor - 1) : input[i + 1] # call.arg

C20_Witness ==
    /\ call.op = "scan_until_char"
    /\ call.res = "CharFound"
    /\ call.before >= 1
    /\ scanner.cursor = call.before + 1
    /\ input[scanner.cursor + 1] = call.arg
    /\ LenUtf8(call.arg) >= 2

IsWs(c) == c = TAB \/ c = SPACE

(* The scanner as it was before the recorded call. *)
ScannerBefore == [scanner EXCEPT !.cursor = call.before]

(* C21: scan_until_char_or_whitespace(c) leaves the cursor at the first
   codepoint at or after the old cursor that is c, a tab or a space and
   returns CharFound for all three; when there is none the cursor is at len
   and the result is EndOfStringReached.  On a remainder without tab and
   space the cursor and the result are those of scan_until_char(c). *)
C21_ScanUntilCharOrWhitespace ==
    call.op = "scan_until_char_or_whitespace"
    => LET rest == call.before..(Len(input) - 1)
           stops == {i \in rest : input[i + 1] = call.arg \/ IsWs(input[i + 1])}
           plain == ScanUntilChar(ScannerBefore, call.arg)
       IN  /\ IF stops # {}
              THEN /\ scanner.cursor \in stops
                   /\ \A i \in stops : scanner.cursor <= i
                   /\ call.res = "CharFound"
              ELSE scanner.cursor = Len(input) /\ call.res = "EndOfStringReached"
           /\ (\A i \in rest : ~IsWs(input[i + 1]))
              => scanner.cursor = plain.scanner.cursor /\ call.res = plain.res

C21_Witness ==
    /\ call.op = "scan_until_char_or_whitespace"
    /\ call.res = "CharFound"
    /\ scanner.cursor = call.before + 1
    /\ input[scanner.cursor + 1] = TAB
    /\ call.arg # TAB
    /\ \E i \in (scanner.cursor + 1)..(Len(input) - 1) : input[i + 1] = call.arg

(* C22: scan_whitespace_repeating moves the cursor past the maximal run of
   tabs and spaces at the cursor, so that it ends at the end of input or at
   a codepoint that is neither; it returns CharFound(k) with
   k = new cursor - old cursor when k > 0 and CharNotFound, cursor
   unchanged, when the run is empty. *)
C22_ScanWhitespaceRepeating ==
    call.op = "scan_whitespace_repeating"
    => /\ \A i \in call.before..(scanner.cursor - 1) : IsWs(input[i + 1])
       /\ scanner.cursor = Len(input) \/ ~IsWs(input[scanner.cursor + 1])
       /\ IF scanner.cursor > call.before
          THEN call.res = "CharFound" /\ call.n = scanner.cursor - call.before
          ELSE call.res = "CharNotFound" /\ scanner.cursor = call.before

C22_Witness ==
    /\ call.op = "scan_whitespace_repeating"
    /\ call.res = "CharFound"
    /\ call.n = 2
    /\ call.before >= 1
    /\ input[call.before + 1] = TAB
    /\ input[call.before + 2] = SPACE

(* The least index at or after from whose codepoint is in stops, or the
   length of the input when there is none. *)
FirstAt(from, stops) ==
    LET hits == {i \in from..(Len(input) - 1) : input[i + 1] \in stops}
    IN  IF hits = {} THEN Len(input) ELSE CHOOSE i \in hits : \A j \in hits : i <= j

(* The first index at or after from that holds neither tab nor space. *)
SkipWs(from) ==
    LET rest == {i \in from..(Len(input) - 1) : ~IsWs(input[i + 1])}
    IN  IF rest = {} THEN Len(input) ELSE CHOOSE i \in rest : \A j \in rest : i <= j

(* C23: parse_name returns exactly one of three outcomes, decided by what
   remains after the leading tabs and spaces: None iff nothing remains;
   Name(s) iff the remainder holds an '=', s being the span from the first
   non-whitespace codepoint to the first '=' and the cursor left at that
   '='; Value(s) iff the remainder is not empty and holds no '=', s running
   to the end of input, where the cursor is left. *)
C23_ParseNameOutcomes ==
    call.op = "parse_name"
    => LET start == SkipWs(call.before)
           eq == FirstAt(start, {EQUALS})
       IN  /\ call.ok
           /\ call.res \in {"None", "Name", "Value"}
           /\ call.res = "None" <=> start = Len(input)
           /\ call.res = "Name" <=> eq < Len(input)
           /\ call.res = "Value" <=> (start < Len(input) /\ eq = Len(input))
           /\ call.res = "None" => scanner.cursor = Len(input)
           /\ call.res # "None"
              => /\ call.from = start
                 /\ call.to = eq
                 /\ call.str = SubSeq(input, start + 1, eq)
                 /\ scanner.cursor = eq

C23_Witness ==
    /\ call.op = "parse_name"
    /\ call.res = "Name"
    /\ call.before >= 1
    /\ call.from > call.before
    /\ call.to > call.from
    /\ input[scanner.cursor + 1] = EQUALS

(* Where the value of the recorded parse_value call starts: after the '='
   at the old cursor and after the '"' that follows it, when they are there. *)
AfterEquals ==
    IF call.before < Len(input) /\ input[call.before + 1] = EQUALS
    THEN call.before + 1 ELSE call.before

Quoted == AfterEquals < Len(input) /\ input[AfterEquals + 1] = DQUOTE

ValueStart == IF Quoted THEN AfterEquals + 1 ELSE AfterEquals

ValueStops == IF Quoted THEN {DQUOTE} ELSE {SEMICOLON, TAB, SPACE}

(* C24: unquoted value.  When parse_value runs at an '=' that no '"'
   follows, the value is the span from just after the '=' to the first ';',
   tab or space, so it holds none of them; a ';' at the stop is consumed, a
   tab or space at the stop is left. *)
C24_UnquotedValue ==
    (/\ call.op = "parse_value"
     /\ call.before < Len(input)
     /\ input[call.before + 1] = EQUALS
     /\ ~Quoted)
    => LET stop == FirstAt(ValueStart, ValueStops)
       IN  /\ call.ok
           /\ ValueStart = call.before + 1
           /\ call.res = "Some"
              => /\ call.from = ValueStart
                 /\ call.to = stop
                 /\ call.str = SubSeq(input, ValueStart + 1, stop)
                 /\ \A i \in 1..Len(call.str) : call.str[i] \notin {SEMICOLON, TAB, SPACE}
           /\ stop < Len(input)
              => /\ call.res = "Some"
                 /\ scanner.cursor = IF input[stop + 1] = SEMICOLON THEN stop + 1 ELSE stop

C24_Witness ==
    /\ call.op = "parse_value"
    /\ ~Quoted
    /\ call.res = "Some"
    /\ call.to > call.from
    /\ call.to < Len(input)
    /\ IsWs(input[call.to + 1])
    /\ scanner.cursor = call.to
    /\ \E i \in call.to..(Len(input) - 1) : input[i + 1] = SEMICOLON

(* C25: parse_value at end of input.  When no stop codepoint (the closing
   '"' of a quoted value; ';', tab or space for an unquoted one) occurs
   before the end, the result is Some(span from the value start to the end
   of input) when that span is not empty and None when it is: an unmatched
   opening quote yields the rest of the input after it, and None when
   nothing follows it. *)
C25_ValueAtEndOfInput ==
    (call.op = "parse_value" /\ FirstAt(ValueStart, ValueStops) = Len(input))
    => /\ call.ok
       /\ scanner.cursor = Len(input)
       /\ IF ValueStart < Len(input)
          THEN /\ call.res = "Some"
               /\ call.from = ValueStart
               /\ call.to = Len(input)
               /\ call.str = SubSeq(input, ValueStart + 1, Len(input))
          ELSE call.res = "None"

C25_Witness ==
    /\ call.op = "parse_value"
    /\ Quoted
    /\ call.res = "Some"
    /\ call.from = call.before + 2
    /\ call.to = Len(input)
    /\ call.to >= call.from + 2
    /\ \E i \in 1..Len(call.str) : call.str[i] = SEMICOLON

(* C26: termination.  On every input the driver loop of parse reaches a
   break; every step that pushes a pair strictly advances the cursor, and
   the number of iterations is at most the length of the input plus one. *)
C26_Terminates ==
    /\ (pc = "parse_call") ~> (pc = "done")
    /\ [](driver.iterations <= Len(input) + 1)
    /\ [][Len(results') > Len(results) => scanner'.cursor > scanner.cursor]_vars

C26_Witness ==
    /\ pc = "done"
    /\ outcome = "None"
    /\ Len(results) = 2
    /\ driver.iterations = 3
    /\ Len(input) = 4

(* C27: a Value outcome is the last one.  After parse_name returns Value
   the cursor is at the end of input, the next parse_name returns None and
   the loop ends; the Value arm is taken at most once in a parse and the
   pair ("", v) it pushes is the final element of the result. *)
C27_ValueIsLast ==
    /\ [](outcome = "Value"
            => /\ scanner.cursor = Len(input)
               /\ pc = "parse_name"
               /\ results[Len(results)] = NewCookie(<<>>, call.str)
               /\ ParseName(scanner).kind = "None")
    /\ [][outcome = "Value"
            => outcome' = "None" /\ pc' = "done" /\ results' = results]_vars
    /\ [](\A i \in 1..Len(driver.views) :
            driver.views[i].name = Literal => i = Len(driver.views))

C27_Witness ==
    /\ pc = "done"
    /\ outcome = "None"
    /\ Len(results) = 2
    /\ driver.views[2].name = Literal
    /\ results[2].value # <<>>
    /\ results[1].name # <<>>

(* The ';'-separated segments of the input, as spans [from, to). *)
Segments ==
    {s \in (0..Len(input)) \X (0..Len(input)) :
        /\ s[1] <= s[2]
        /\ s[1] = 0 \/ input[s[1]] = SEMICOLON
        /\ s[2] = Len(input) \/ input[s[2] + 1] = SEMICOLON
        /\ \A i \in (s[1] + 1)..s[2] : input[i] # SEMICOLON}

SegmentStr(s) == SubSeq(input, s[1] + 1, s[2])

(* C28: in a header of ';'-separated segments (here without whitespace and
   quotes), a non-empty segment that holds no '=' yields the pair
   ("", segment), whether it is the only segment, the last one, or followed
   by segments that hold '='. *)
C28_SegmentWithoutEquals ==
    (/\ pc = "done"
     /\ \A i \in 1..Len(input) : input[i] \notin {TAB, SPACE, DQUOTE})
    => \A s \in Segments :
          (/\ SegmentStr(s) # <<>>
           /\ NoEqualsIn(SegmentStr(s))
           /\ \A o \in Segments \ {s} : ~NoEqualsIn(SegmentStr(o)))
          => \E k \in 1..Len(results) : results[k] = NewCookie(<<>>, SegmentStr(s))

(* C29: the whole input is consumed.  On every exit of the driver loop
   (parse_name returned None, or parse_value returned None) the cursor
   equals the length of the input; parse_value returns None only at the end
   of input, so the break after pushing (n, "") leaves nothing unexamined. *)
C29_WholeInputConsumed ==
    /\ pc = "done"
       => /\ scanner.cursor = Len(input)
          /\ outcome \in {"None", "NoValue"}
          /\ outcome = "NoValue" => results[Len(results)] = NewCookie(name, <<>>)
    /\ (call.op = "parse_value" /\ call.res = "None")
       => scanner.cursor = Len(input) /\ pc = "done"

C29_Witness ==
    /\ pc = "done"
    /\ outcome = "NoValue"
    /\ call.op = "parse_value"
    /\ call.res = "None"
    /\ Len(results) = 2
    /\ results[2].name # <<>>
    /\ scanner.cursor = Len(input)

(* The string v is the view w of the input, or "" when w is the literal. *)
IsViewOf(v, w) ==
    IF w.view
    THEN /\ 0 <= w.from
         /\ w.from <= w.to
         /\ w.to <= Len(input)
         /\ v = SubSeq(input, w.from + 1, w.to)
    ELSE v = <<>>

(* The view a ends before the view b starts; a literal "" lies nowhere. *)
Precedes(a, b) == (a.view /\ b.view) => a.to <= b.from

(* C30: every name and value parse returns is a contiguous span [from, to)
   of the input, and the spans come in input order without overlap: a name
   ends before its value starts, and everything of a pair ends before
   everything of a later pair starts. *)
C30_ViewsInInputOrder ==
    /\ Len(driver.views) = Len(results)
    /\ \A i \in 1..Len(results) :
          /\ IsViewOf(results[i].name, driver.views[i].name)
          /\ IsViewOf(results[i].value, driver.views[i].value)
          /\ Precedes(driver.views[i].name, driver.views[i].value)
    /\ \A i \in 1..Len(results) : \A j \in (i + 1)..Len(results) :
          /\ Precedes(driver.views[i].name, driver.views[j].name)
          /\ Precedes(driver.views[i].name, driver.views[j].value)
          /\ Precedes(driver.views[i].value, driver.views[j].name)
          /\ Precedes(driver.views[i].value, driver.views[j].value)

C30_Witness ==
    /\ pc = "done"
    /\ Len(results) = 2
    /\ driver.views[1].name.view
    /\ driver.views[1].value.view
    /\ driver.views[1].value.from < driver.views[1].value.to
    /\ driver.views[2].name.view
    /\ driver.views[2].name.from > driver.views[1].value.to
    /\ \E i \in 1..Len(results[1].value) : results[1].value[i] = Wide

====
